---------------------------- MODULE Spec2Model ----------------------------
(***************************************************************************)
(* PPCDebugInterface (Source/Core/Core/Debugger/PPCDebugInterface.cpp):    *)
(* the debugger facade over the breakpoint set, the memcheck set, the      *)
(* watch sequence and the emulated machine (liveness, execution state,     *)
(* primary memory, ARAM, program counter, cache-invalidation scheduler,    *)
(* symbol database).                                                       *)
(*                                                                         *)
(* A u32 is a pair <<hi, lo>> of 16-bit halves (the model checker's        *)
(* integers are 32-bit signed), so 0x80001000 is <<32768, 4096>>.          *)
(***************************************************************************)
EXTENDS Integers, Sequences, FiniteSets, TLC

(***************************************************************************)
(* Bounds of the model.                                                    *)
(***************************************************************************)
MaxMemChecks == 2
MaxWatches == 2
MaxPending == 1

(***************************************************************************)
(* u32 arithmetic on <<hi, lo>>.                                           *)
(***************************************************************************)
Half == 2 ^ 16

U32Add(a, k) ==
    LET s == a[2] + k
    IN  <<(a[1] + (s \div Half)) % Half, s % Half>>

U32LE(a, b) == a[1] < b[1] \/ (a[1] = b[1] /\ a[2] <= b[2])

\* (b0 << 24) | (b1 << 16) | (b2 << 8) | b3, as an unsigned int
PackBE(b0, b1, b2, b3) == <<(b0 * 256 + b1) % Half, (b2 * 256 + b3) % Half>>

\* UGeckoInstruction::OPCD, the top 6 bits of the word
OPCD(op) == op[1] \div 1024

HexDigit(d) ==
    <<"0", "1", "2", "3", "4", "5", "6", "7",
      "8", "9", "A", "B", "C", "D", "E", "F">>[d + 1]

RECURSIVE HexN(_, _)
HexN(n, k) == IF k = 0 THEN "" ELSE HexN(n \div 16, k - 1) \o HexDigit(n % 16)

\* StringFromFormat("%08X", w)
Hex8(w) == HexN(w[1], 4) \o HexN(w[2], 4)

(***************************************************************************)
(* Input domains.                                                          *)
(***************************************************************************)
\* 0x80001000, 0x80001004 (MEM1) and 0xFFFFFFFE (unmapped)
Addrs == {<<32768, 4096>>, <<32768, 4100>>, <<65535, 65534>>}
\* the addresses of the whole-facade session
SessAddrs == {<<32768, 4096>>, <<65535, 65534>>}
\* 0x00000000, 0x04000000 (OPCD = 1), 0xFFFFFFFF (OPCD = 63)
Words == {<<0, 0>>, <<1024, 0>>, <<65535, 65535>>}
\* (read, write, log) of ToggleMemCheck
FlagTriples == {<<TRUE, FALSE, FALSE>>, <<FALSE, TRUE, TRUE>>}
\* ranges start < end added to PowerPC::memchecks by other parts of the debugger
ExtRanges == {<<<<32768, 4096>>, <<32768, 4100>>>>, <<<<32768, 4100>>, <<65535, 65534>>>>}
\* the memory selector of GetRawMemoryString / ReadExtraMemory
Spaces == {0 - 1, 0, 1, 2}

(***************************************************************************)
(* BreakPoints (PowerPC::breakpoints): a set keyed by address.             *)
(***************************************************************************)
IsAddressBreakPoint(bps, address) == address \in bps

BreakPointsAdd(bps, address) == bps \cup {address}

BreakPointsRemove(bps, address) == bps \ {address}

\* a toggle that only ever adds
ToggleBreakpointNoRemove(bps, address) == BreakPointsAdd(bps, address)

\* PPCDebugInterface::ToggleBreakpoint, given the outcome of its membership check
ToggleBreakpointAct(bps, present, address) ==
    IF present THEN BreakPointsRemove(bps, address) ELSE BreakPointsAdd(bps, address)

ToggleBreakpoint(bps, address) ==
    ToggleBreakpointAct(bps, IsAddressBreakPoint(bps, address), address)

(***************************************************************************)
(* MemChecks (PowerPC::memchecks): a sequence of TMemCheck records.        *)
(***************************************************************************)
TMemCheck(start, end, read, write, log) ==
    [start_address |-> start, end_address |-> end,
     is_break_on_read |-> read, is_break_on_write |-> write,
     log_on_hit |-> log, break_on_hit |-> TRUE]

\* the record's range overlaps [address, address + size)
Overlaps(mc, address, size) ==
    /\ U32LE(address, mc.end_address)
    /\ U32LE(mc.start_address, U32Add(address, size - 1))

Hits(mcs, address, size) == {i \in 1..Len(mcs) : Overlaps(mcs[i], address, size)}

Min(S) == CHOOSE x \in S : \A y \in S : x <= y

\* index of the first overlapping record, 0 for nullptr
GetMemCheck(mcs, address, size) ==
    IF Hits(mcs, address, size) = {} THEN 0 ELSE Min(Hits(mcs, address, size))

MemChecksAdd(mcs, mc) == Append(mcs, mc)

RemoveAt(s, i) == SubSeq(s, 1, i - 1) \o SubSeq(s, i + 1, Len(s))

\* removes the first record whose range contains address
MemChecksRemove(mcs, address) ==
    IF GetMemCheck(mcs, address, 1) = 0 THEN mcs
    ELSE RemoveAt(mcs, GetMemCheck(mcs, address, 1))

IsMemCheck(mcs, address, size) == GetMemCheck(mcs, address, size) # 0

\* PPCDebugInterface::ToggleMemCheck, given the outcome of its IsMemCheck check
ToggleMemCheckAct(mcs, hit, address, read, write, log) ==
    IF ~hit THEN MemChecksAdd(mcs, TMemCheck(address, address, read, write, log))
    ELSE MemChecksRemove(mcs, address)

\* a toggle whose toggle-off looks at the flags: it removes only a record that
\* carries the flags passed, and adds a record otherwise
ToggleMemCheckFlagSensitive(mcs, address, read, write, log) ==
    IF /\ IsMemCheck(mcs, address, 1)
       /\ mcs[GetMemCheck(mcs, address, 1)].is_break_on_read = read
       /\ mcs[GetMemCheck(mcs, address, 1)].is_break_on_write = write
       /\ mcs[GetMemCheck(mcs, address, 1)].log_on_hit = log
      THEN MemChecksRemove(mcs, address)
      ELSE MemChecksAdd(mcs, TMemCheck(address, address, read, write, log))

\* a toggle whose new record covers the four bytes of the word at address
ToggleMemCheckWord(mcs, address, read, write, log) ==
    IF ~IsMemCheck(mcs, address, 1)
      THEN MemChecksAdd(mcs, TMemCheck(address, U32Add(address, 3), read, write, log))
      ELSE MemChecksRemove(mcs, address)

ToggleMemCheck(mcs, address, read, write, log) ==
    ToggleMemCheckAct(mcs, IsMemCheck(mcs, address, 1), address, read, write, log)

(***************************************************************************)
(* Watches (Common::Debug::Watches): an ordered sequence of Watch records. *)
(* A name and a persisted line are sequences of characters.                *)
(***************************************************************************)
Names == {<<"a">>, <<"p", "c">>}

Watch(address, name, enabled) ==
    [address |-> address, name |-> name, is_enabled |-> enabled]

WatchesSetWatch(ws, address, name) == Append(ws, Watch(address, name, TRUE))

WatchHits(ws, address) == {i \in 1..Len(ws) : ws[i].address = address}

\* removes the first watch with that address, if any
WatchesUnsetWatch(ws, address) ==
    IF WatchHits(ws, address) = {} THEN ws ELSE RemoveAt(ws, Min(WatchHits(ws, address)))

\* index is the 0-based std::size_t index of the source; an index >= count fails
\* with OutOfRange and the sequence stays as it is
OutOfRange(ws, index) == index >= Len(ws)

WatchesGetWatch(ws, index) ==
    IF OutOfRange(ws, index) THEN "OutOfRange" ELSE ws[index + 1]

WatchesUpdateWatch(ws, index, address, name) ==
    IF OutOfRange(ws, index) THEN ws
    ELSE [ws EXCEPT ![index + 1] = Watch(address, name, @.is_enabled)]

WatchesUpdateWatchAddress(ws, index, address) ==
    IF OutOfRange(ws, index) THEN ws ELSE [ws EXCEPT ![index + 1].address = address]

WatchesUpdateWatchName(ws, index, name) ==
    IF OutOfRange(ws, index) THEN ws ELSE [ws EXCEPT ![index + 1].name = name]

WatchesEnableWatch(ws, index) ==
    IF OutOfRange(ws, index) THEN ws ELSE [ws EXCEPT ![index + 1].is_enabled = TRUE]

WatchesDisableWatch(ws, index) ==
    IF OutOfRange(ws, index) THEN ws ELSE [ws EXCEPT ![index + 1].is_enabled = FALSE]

WatchesHasEnabledWatch(ws, address) ==
    \E i \in 1..Len(ws) : ws[i].address = address /\ ws[i].is_enabled

WatchesRemoveWatch(ws, index) ==
    IF OutOfRange(ws, index) THEN ws ELSE RemoveAt(ws, index + 1)

RECURSIVE HexChars(_, _)
HexChars(n, k) ==
    IF k = 0 THEN <<>> ELSE Append(HexChars(n \div 16, k - 1), HexDigit(n % 16))

\* "%08X %s"
WatchToString(w) ==
    HexChars(w.address[1], 4) \o HexChars(w.address[2], 4) \o <<" ">> \o w.name

WatchesSaveToStrings(ws) == [i \in 1..Len(ws) |-> WatchToString(ws[i])]

\* hexadecimal input accepts both cases
LowerHexDigit(d) ==
    <<"0", "1", "2", "3", "4", "5", "6", "7",
      "8", "9", "a", "b", "c", "d", "e", "f">>[d + 1]

IsHexChar(c) == \E d \in 0..15 : c \in {HexDigit(d), LowerHexDigit(d)}

HexVal(c) == CHOOSE d \in 0..15 : c \in {HexDigit(d), LowerHexDigit(d)}

RECURSIVE HexParse(_)
HexParse(cs) ==
    IF cs = <<>> THEN 0
    ELSE HexParse(SubSeq(cs, 1, Len(cs) - 1)) * 16 + HexVal(cs[Len(cs)])

\* position of the first blank of the line, 0 if it has none
FirstBlank(line) ==
    IF \E i \in 1..Len(line) : line[i] = " "
      THEN Min({i \in 1..Len(line) : line[i] = " "})
      ELSE 0

RECURSIVE SkipBlanks(_)
SkipBlanks(cs) == IF cs # <<>> /\ Head(cs) = " " THEN SkipBlanks(Tail(cs)) ELSE cs

\* the address token: the characters before the first blank
AddressToken(line) == SubSeq(line, 1, FirstBlank(line) - 1)

\* the name: the rest of the line after the blanks that follow the address
NameOfLine(line) == SkipBlanks(SubSeq(line, FirstBlank(line), Len(line)))

\* "<hex-address> <name>": 1 to 8 hex digits, a blank, a name
WellFormedLine(line) ==
    /\ FirstBlank(line) \in 2..9
    /\ \A i \in 1..(FirstBlank(line) - 1) : IsHexChar(line[i])
    /\ NameOfLine(line) # <<>>

ParseLine(line) ==
    LET tok == AddressToken(line)
        digits == [i \in 1..(8 - Len(tok)) |-> "0"] \o tok
    IN  Watch(<<HexParse(SubSeq(digits, 1, 4)), HexParse(SubSeq(digits, 5, 8))>>,
              NameOfLine(line), TRUE)

RECURSIVE ParseLines(_)
ParseLines(lines) ==
    IF lines = <<>> THEN <<>>
    ELSE (IF WellFormedLine(Head(lines)) THEN <<ParseLine(Head(lines))>> ELSE <<>>)
         \o ParseLines(Tail(lines))

\* replaces the whole sequence; malformed lines are skipped
WatchesLoadFromStrings(ws, lines) == ParseLines(lines)

(***************************************************************************)
(* The emulated machine, as the facade's collaborators expose it.          *)
(***************************************************************************)
\* Core::IsRunningAndStarted
IsRunningAndStarted(state) == state \in {"Running", "Paused"}

\* PowerPC::HostIsRAMAddress: MEM1 is 0x80000000..0x817FFFFF
HostIsRAMAddress(address) == address[1] \in 32768..33151

RamAddrs == {a \in Addrs : HostIsRAMAddress(a)}

\* the outcome of a host read that crashes the caller
FaultWord == <<0 - 1, 0 - 1>>

\* PowerPC::HostRead_U32 / HostRead_Instruction: the set of possible outcomes.
\* On a machine that is not alive the read may crash ("seemed to crash on
\* shutdown"); outside RAM the value is whatever the accessor yields.
HostRead(state, mem, address) ==
    IF ~IsRunningAndStarted(state)
      THEN {FaultWord} \cup (IF address \in DOMAIN mem THEN {mem[address]} ELSE {<<0, 0>>})
      ELSE IF address \in DOMAIN mem THEN {mem[address]} ELSE {<<0, 0>>}

\* the secondary memory (ARAM), one byte per address
VARIABLE aram

\* the ARAM addresses a four-byte read at an address of Addrs touches
AramAddrs == {U32Add(a, i) : a \in Addrs, i \in 0..3}

\* the ARAM content after construction: 0x81 at 0x80001000, 0xC4, 0x07, 0x4A after it
InitialARAM == [a \in AramAddrs |-> (a[2] * 67 + 129) % 256]

\* DSP::ReadARAM: one byte of the secondary memory
ReadARAM(address) == aram[address]

\* g_symbolDB.GetSymbolFromAddr: 0 for nullptr
NoSymbol == [type |-> "None", index |-> 0]

GetSymbolFromAddr(address) ==
    IF address = <<32768, 4096>> THEN [type |-> "Function", index |-> 3]
    ELSE IF address = <<32768, 4100>> THEN [type |-> "Data", index |-> 4]
    ELSE NoSymbol

\* g_symbolDB.GetDescription
SymbolDescription(address) ==
    IF GetSymbolFromAddr(address) = NoSymbol THEN " --- "
    ELSE "sym_" \o Hex8(<<0, GetSymbolFromAddr(address).index>>)

\* GekkoDisassembler::Disassemble
GekkoDisassemble(op, address) == "op_" \o Hex8(op) \o "@" \o Hex8(address)

(***************************************************************************)
(* The facade's machine-facing methods, as functions of what the call      *)
(* observes.  Each yields the returned value, the collaborator calls made  *)
(* in order (log) and whether a collaborator crashed the call (fault).     *)
(***************************************************************************)
\* PPCDebugInterface::IsAlive
IsAlive(state) == IsRunningAndStarted(state)

AliveEv(alive) == IF alive THEN "IsAlive=true" ELSE "IsAlive=false"

Result(ret, log, fault) == [ret |-> ret, log |-> log, fault |-> fault]

\* a Disassemble that fetches the instruction whatever the execution state
DisassembleNoPauseCheck(alive, state, isram, op, address) ==
    IF ~alive THEN Result("", <<AliveEv(alive)>>, FALSE)
    ELSE IF ~isram
      THEN Result("(No RAM here)", <<AliveEv(alive), "HostIsRAMAddress">>, FALSE)
      ELSE Result(GekkoDisassemble(op, address),
                  <<AliveEv(alive), "HostIsRAMAddress", "HostRead_Instruction">>,
                  FALSE)

\* a Disassemble that fetches the instruction before it checks the address
DisassembleFetchFirst(alive, state, isram, op, address) ==
    IF ~alive THEN Result("", <<AliveEv(alive)>>, FALSE)
    ELSE IF state = "Paused"
      THEN IF op = <<0 - 1, 0 - 1>>
             THEN Result("", <<AliveEv(alive), "GetState", "HostRead_Instruction">>, TRUE)
             ELSE IF ~isram
               THEN Result("(No RAM here)",
                           <<AliveEv(alive), "GetState", "HostRead_Instruction",
                             "HostIsRAMAddress">>, FALSE)
               ELSE Result(GekkoDisassemble(op, address)
                             \o (IF op[1] \div 1024 = 1 THEN " (hle)" ELSE ""),
                           <<AliveEv(alive), "GetState", "HostRead_Instruction",
                             "HostIsRAMAddress">>, FALSE)
      ELSE Result("<unknown>", <<AliveEv(alive), "GetState">>, FALSE)

\* a Disassemble that takes the top seven bits of the word for the opcode field
DisassembleWideOpcode(alive, state, isram, op, address) ==
    IF ~alive THEN Result("", <<AliveEv(alive)>>, FALSE)
    ELSE IF state = "Paused"
      THEN IF ~isram
             THEN Result("(No RAM here)",
                         <<AliveEv(alive), "GetState", "HostIsRAMAddress">>, FALSE)
             ELSE IF op = <<0 - 1, 0 - 1>>
               THEN Result("", <<AliveEv(alive), "GetState", "HostIsRAMAddress",
                                 "HostRead_Instruction">>, TRUE)
               ELSE Result(GekkoDisassemble(op, address)
                             \o (IF op[1] \div 512 = 1 THEN " (hle)" ELSE ""),
                           <<AliveEv(alive), "GetState", "HostIsRAMAddress",
                             "HostRead_Instruction">>, FALSE)
      ELSE Result("<unknown>", <<AliveEv(alive), "GetState">>, FALSE)

Disassemble(alive, state, isram, op, address) ==
    IF ~alive THEN Result("", <<AliveEv(alive)>>, FALSE)
    ELSE IF state = "Paused"
      THEN IF ~isram
             THEN Result("(No RAM here)",
                         <<AliveEv(alive), "GetState", "HostIsRAMAddress">>, FALSE)
             ELSE IF op = FaultWord
               THEN Result("", <<AliveEv(alive), "GetState", "HostIsRAMAddress",
                                 "HostRead_Instruction">>, TRUE)
               ELSE Result(GekkoDisassemble(op, address)
                             \o (IF OPCD(op) = 1 THEN " (hle)" ELSE ""),
                           <<AliveEv(alive), "GetState", "HostIsRAMAddress",
                             "HostRead_Instruction">>, FALSE)
      ELSE Result("<unknown>", <<AliveEv(alive), "GetState">>, FALSE)

\* word is the outcome of PowerPC::HostRead_U32(address)
ReadMemory(word) == Result(word, <<"HostRead_U32">>, word = FaultWord)

\* word is the outcome of PowerPC::HostRead_U32(address), read only for memory = 0
\* a ReadExtraMemory that packs the four bytes least-significant first
ReadExtraMemoryLittleEndian(memory, address, word) ==
    CASE memory = 0 -> Result(word, <<"HostRead_U32">>, word = <<0 - 1, 0 - 1>>)
      [] memory = 1 ->
           Result(PackBE(ReadARAM(U32Add(address, 3)), ReadARAM(U32Add(address, 2)),
                         ReadARAM(U32Add(address, 1)), ReadARAM(address)),
                  <<"ReadARAM", "ReadARAM", "ReadARAM", "ReadARAM">>, FALSE)
      [] OTHER -> Result(<<0, 0>>, <<>>, FALSE)

ReadExtraMemory(memory, address, word) ==
    CASE memory = 0 -> Result(word, <<"HostRead_U32">>, word = FaultWord)
      [] memory = 1 ->
           Result(PackBE(ReadARAM(address), ReadARAM(U32Add(address, 1)),
                         ReadARAM(U32Add(address, 2)), ReadARAM(U32Add(address, 3))),
                  <<"ReadARAM", "ReadARAM", "ReadARAM", "ReadARAM">>, FALSE)
      [] OTHER -> Result(<<0, 0>>, <<>>, FALSE)

\* a GetRawMemoryString that reads without consulting liveness
GetRawMemoryStringNoAliveCheck(alive, isram, memory, address, word) ==
    LET r == ReadExtraMemory(memory, address, word)
    IN  Result(IF r.fault THEN "" ELSE Hex8(r.ret) \o (IF memory # 0 THEN " (ARAM)" ELSE ""),
               r.log, r.fault)

\* a GetRawMemoryString that applies the RAM check to the secondary space too
GetRawMemoryStringRamCheckAll(alive, isram, memory, address, word) ==
    IF alive
      THEN IF isram
             THEN LET r == ReadExtraMemory(memory, address, word)
                  IN  Result(IF r.fault THEN ""
                             ELSE Hex8(r.ret) \o (IF memory # 0 THEN " (ARAM)" ELSE ""),
                             <<AliveEv(alive), "HostIsRAMAddress">> \o r.log, r.fault)
             ELSE Result(IF memory # 0 THEN "--ARAM--" ELSE "--------",
                         <<AliveEv(alive), "HostIsRAMAddress">>, FALSE)
      ELSE Result("<unknwn>", <<AliveEv(alive)>>, FALSE)

\* a GetRawMemoryString whose not-alive sentinel is spelled out
GetRawMemoryStringSpelled(alive, isram, memory, address, word) ==
    IF alive
      THEN GetRawMemoryStringRamCheckAll(alive, isram \/ memory # 0, memory, address, word)
      ELSE Result("<unknown>", <<AliveEv(alive)>>, FALSE)

\* a GetRawMemoryString that answers "--ARAM--" for the secondary space at an
\* address that is not valid primary RAM
GetRawMemoryStringAramSentinel(alive, isram, memory, address, word) ==
    IF alive /\ memory # 0 /\ ~isram
      THEN Result("--ARAM--", <<AliveEv(alive), "HostIsRAMAddress">>, FALSE)
      ELSE GetRawMemoryStringRamCheckAll(alive, isram, memory, address, word)

GetRawMemoryString(alive, isram, memory, address, word) ==
    IF alive
      THEN LET is_aram == memory # 0
               chk == IF is_aram THEN <<>> ELSE <<"HostIsRAMAddress">>
           IN  IF is_aram \/ isram
                 THEN LET r == ReadExtraMemory(memory, address, word)
                      IN  Result(IF r.fault THEN ""
                                 ELSE Hex8(r.ret) \o (IF is_aram THEN " (ARAM)" ELSE ""),
                                 <<AliveEv(alive)>> \o chk \o r.log, r.fault)
                 ELSE Result(IF is_aram THEN "--ARAM--" ELSE "--------",
                             <<AliveEv(alive)>> \o chk, FALSE)
      ELSE Result("<unknwn>", <<AliveEv(alive)>>, FALSE)

\* word is the outcome of PowerPC::HostRead_Instruction(address)
ReadInstruction(word) == Result(word, <<"HostRead_Instruction">>, word = FaultWord)

\* a GetColor whose palette selection is off by one
GetColorShifted(alive, isram, symbol) ==
    IF ~alive THEN Result(16777215, <<AliveEv(alive)>>, FALSE)
    ELSE IF ~isram
      THEN Result(15658734, <<AliveEv(alive), "HostIsRAMAddress">>, FALSE)
      ELSE IF symbol = [type |-> "None", index |-> 0]
        THEN Result(16777215,
                    <<AliveEv(alive), "HostIsRAMAddress", "GetSymbolFromAddr">>, FALSE)
        ELSE IF symbol.type # "Function"
          THEN Result(15658751,
                      <<AliveEv(alive), "HostIsRAMAddress", "GetSymbolFromAddr">>, FALSE)
          ELSE Result(<<13697023, 16765136, 14211327, 16765183, 13696976,
                        16777168>>[((symbol.index + 1) % 6) + 1],
                      <<AliveEv(alive), "HostIsRAMAddress", "GetSymbolFromAddr">>, FALSE)

\* static const int colors[6]
colors == <<13697023, 16765136, 14211327, 16765183, 13696976, 16777168>>

GetColor(alive, isram, symbol) ==
    IF ~alive THEN Result(16777215, <<AliveEv(alive)>>, FALSE)
    ELSE IF ~isram
      THEN Result(15658734, <<AliveEv(alive), "HostIsRAMAddress">>, FALSE)
      ELSE IF symbol = NoSymbol
        THEN Result(16777215,
                    <<AliveEv(alive), "HostIsRAMAddress", "GetSymbolFromAddr">>, FALSE)
        ELSE IF symbol.type # "Function"
          THEN Result(15658751,
                      <<AliveEv(alive), "HostIsRAMAddress", "GetSymbolFromAddr">>, FALSE)
          ELSE Result(colors[(symbol.index % 6) + 1],
                      <<AliveEv(alive), "HostIsRAMAddress", "GetSymbolFromAddr">>, FALSE)

GetDescription(address) == Result(SymbolDescription(address), <<"GetDescription">>, FALSE)

GetPC(pcreg) == Result(pcreg, <<"pc.read">>, FALSE)

\* PowerPC::HostWrite_U32(value, address): the primary memory after the write
HostWrite(mem, value, address) ==
    IF address \in DOMAIN mem THEN [mem EXCEPT ![address] = value] ELSE mem

(***************************************************************************)
(* State.                                                                  *)
(***************************************************************************)
VARIABLES
    breakpoints,   \* PowerPC::breakpoints
    memchecks,     \* PowerPC::memchecks
    watches,       \* m_watches
    coreState,     \* Core::GetState()
    pc,            \* PowerPC::ppcState.pc
    ram,           \* primary memory, by RAM address
    pending,       \* invalidations handed to ScheduleInvalidateCacheThreadSafe
    icache,        \* the instruction cache: the word cached for a RAM address, if any
    last,          \* the facade call that ran last: method, arguments, outcome
    hist,          \* what the last (at most two) consecutive calls of one toggle, or the
                   \* last Clear or LoadWatchesFromStrings, replaced
    thr            \* the calls in progress of the interleaved specifications

vars == <<breakpoints, memchecks, watches, coreState, pc, ram, aram, pending, icache, last,
          hist, thr>>

sets == <<breakpoints, memchecks, watches>>
machine == <<coreState, pc, ram, aram, pending, icache>>

NoCall == [op |-> "none", args |-> <<>>, ret |-> "", log |-> <<>>, fault |-> FALSE]

ResetVector == <<0, 256>>

\* no instruction-cache entry
NotCached == <<>>

EmptyICache == [a \in RamAddrs |-> NotCached]

Init ==
    /\ breakpoints = {}
    /\ memchecks = <<>>
    /\ watches = <<>>
    /\ coreState = "Uninitialized"
    /\ pc = ResetVector
    /\ ram = [a \in RamAddrs |-> <<0, 0>>]
    /\ aram = InitialARAM
    /\ pending = <<>>
    /\ icache = EmptyICache
    /\ last = NoCall
    /\ hist = <<>>
    /\ thr = <<>>

\* the call returns: last is its record, hist forgets the toggles before it
Returned(op, args, r) ==
    /\ last' = [op |-> op, args |-> args, ret |-> r.ret, log |-> r.log, fault |-> r.fault]
    /\ hist' = <<>>

Return(op, args, r) ==
    /\ Returned(op, args, r)
    /\ thr' = thr

Void == Result("", <<>>, FALSE)

\* a toggle, Clear or LoadWatchesFromStrings returns: hist keeps what it replaced
ReturnToggle(op, args, before) ==
    /\ last' = [op |-> op, args |-> args, ret |-> "", log |-> <<>>, fault |-> FALSE]
    /\ hist' = <<[op |-> op, address |-> IF args = <<>> THEN <<>> ELSE args[1],
                   before |-> before]>>
                 \o (IF hist # <<>> /\ hist[1].op = op THEN <<hist[1]>> ELSE <<>>)
    /\ thr' = thr

(***************************************************************************)
(* Breakpoint and memcheck methods (one caller, each call atomic).         *)
(***************************************************************************)
IsBreakpointCall(address) ==
    /\ Return("IsBreakpoint", <<address>>,
              Result(IsAddressBreakPoint(breakpoints, address), <<>>, FALSE))
    /\ UNCHANGED <<sets, machine>>

SetBreakpointCall(address) ==
    /\ breakpoints' = BreakPointsAdd(breakpoints, address)
    /\ Return("SetBreakpoint", <<address>>, Void)
    /\ UNCHANGED <<memchecks, watches, machine>>

ClearBreakpointCall(address) ==
    /\ breakpoints' = BreakPointsRemove(breakpoints, address)
    /\ Return("ClearBreakpoint", <<address>>, Void)
    /\ UNCHANGED <<memchecks, watches, machine>>

ClearAllBreakpoints(bps) == {}

ClearAllBreakpointsCall ==
    /\ breakpoints' = ClearAllBreakpoints(breakpoints)
    /\ Return("ClearAllBreakpoints", <<>>, Void)
    /\ UNCHANGED <<memchecks, watches, machine>>

ToggleBreakpointCall(address) ==
    /\ breakpoints' = ToggleBreakpoint(breakpoints, address)
    /\ ReturnToggle("ToggleBreakpoint", <<address>>, breakpoints)
    /\ UNCHANGED <<memchecks, watches, machine>>

ClearAllMemChecks(mcs) == <<>>

ClearAllMemChecksCall ==
    /\ memchecks' = ClearAllMemChecks(memchecks)
    /\ Return("ClearAllMemChecks", <<>>, Void)
    /\ UNCHANGED <<breakpoints, watches, machine>>

IsMemCheckCall(address, size) ==
    /\ Return("IsMemCheck", <<address, size>>,
              Result(IsMemCheck(memchecks, address, size), <<>>, FALSE))
    /\ UNCHANGED <<sets, machine>>

ToggleMemCheckCall(address, read, write, log) ==
    /\ Len(memchecks) < MaxMemChecks \/ IsMemCheck(memchecks, address, 1)
    /\ memchecks' = ToggleMemCheck(memchecks, address, read, write, log)
    /\ ReturnToggle("ToggleMemCheck", <<address, read, write, log>>, memchecks)
    /\ UNCHANGED <<breakpoints, watches, machine>>

\* PowerPC::memchecks.Add(range) from outside the facade
MemChecksAddExternal(range, flags) ==
    /\ Len(memchecks) < MaxMemChecks
    /\ memchecks' = MemChecksAdd(memchecks,
                                 TMemCheck(range[1], range[2], flags[1], flags[2], flags[3]))
    /\ Return("MemChecks::Add", <<range[1], range[2]>>, Void)
    /\ UNCHANGED <<breakpoints, watches, machine>>

(***************************************************************************)
(* Watch methods.                                                          *)
(***************************************************************************)
SetWatchCall(address, name) ==
    /\ Len(watches) < MaxWatches
    /\ watches' = WatchesSetWatch(watches, address, name)
    /\ Return("SetWatch", <<address, name>>, Result(Len(watches), <<>>, FALSE))
    /\ UNCHANGED <<breakpoints, memchecks, machine>>

\* the outcome of a forwarding method: the facade neither checks the index nor
\* catches the collaborator's failure
Forwarded(ws, index, ret) ==
    IF OutOfRange(ws, index) THEN Result("OutOfRange", <<>>, TRUE)
    ELSE Result(ret, <<>>, FALSE)

GetWatchCall(index) ==
    /\ Return("GetWatch", <<index>>,
              Forwarded(watches, index, WatchesGetWatch(watches, index)))
    /\ UNCHANGED <<sets, machine>>

GetWatchesCall ==
    /\ Return("GetWatches", <<>>, Result(watches, <<>>, FALSE))
    /\ UNCHANGED <<sets, machine>>

\* an UnsetWatch that also drops the breakpoint at the address
UnsetWatchCallWithBreakpoint(address) ==
    /\ watches' = WatchesUnsetWatch(watches, address)
    /\ breakpoints' = BreakPointsRemove(breakpoints, address)
    /\ Return("UnsetWatch", <<address>>, Void)
    /\ UNCHANGED <<memchecks, machine>>

UnsetWatchCall(address) ==
    /\ watches' = WatchesUnsetWatch(watches, address)
    /\ Return("UnsetWatch", <<address>>, Void)
    /\ UNCHANGED <<breakpoints, memchecks, machine>>

\* an UpdateWatch that clamps the index to the last watch instead of failing
UpdateWatchCallClamped(index, address, name) ==
    /\ watches' = IF watches = <<>> THEN watches
                  ELSE WatchesUpdateWatch(watches,
                                          IF OutOfRange(watches, index)
                                            THEN Len(watches) - 1 ELSE index,
                                          address, name)
    /\ Return("UpdateWatch", <<index, address, name>>, Void)
    /\ UNCHANGED <<breakpoints, memchecks, machine>>

UpdateWatchCall(index, address, name) ==
    /\ watches' = WatchesUpdateWatch(watches, index, address, name)
    /\ Return("UpdateWatch", <<index, address, name>>, Forwarded(watches, index, ""))
    /\ UNCHANGED <<breakpoints, memchecks, machine>>

UpdateWatchAddressCall(index, address) ==
    /\ watches' = WatchesUpdateWatchAddress(watches, index, address)
    /\ Return("UpdateWatchAddress", <<index, address>>, Forwarded(watches, index, ""))
    /\ UNCHANGED <<breakpoints, memchecks, machine>>

UpdateWatchNameCall(index, name) ==
    /\ watches' = WatchesUpdateWatchName(watches, index, name)
    /\ Return("UpdateWatchName", <<index, name>>, Forwarded(watches, index, ""))
    /\ UNCHANGED <<breakpoints, memchecks, machine>>

EnableWatchCall(index) ==
    /\ watches' = WatchesEnableWatch(watches, index)
    /\ Return("EnableWatch", <<index>>, Forwarded(watches, index, ""))
    /\ UNCHANGED <<breakpoints, memchecks, machine>>

DisableWatchCall(index) ==
    /\ watches' = WatchesDisableWatch(watches, index)
    /\ Return("DisableWatch", <<index>>, Forwarded(watches, index, ""))
    /\ UNCHANGED <<breakpoints, memchecks, machine>>

HasEnabledWatchCall(address) ==
    /\ Return("HasEnabledWatch", <<address>>,
              Result(WatchesHasEnabledWatch(watches, address), <<>>, FALSE))
    /\ UNCHANGED <<sets, machine>>

RemoveWatchCall(index) ==
    /\ watches' = WatchesRemoveWatch(watches, index)
    /\ Return("RemoveWatch", <<index>>, Forwarded(watches, index, ""))
    /\ UNCHANGED <<breakpoints, memchecks, machine>>

\* a LoadWatchesFromStrings that keeps the watches already there
LoadWatchesFromStringsCallAppending(lines) ==
    /\ watches' = watches \o WatchesLoadFromStrings(watches, lines)
    /\ ReturnToggle("LoadWatchesFromStrings", <<lines>>, watches)
    /\ UNCHANGED <<breakpoints, memchecks, machine>>

LoadWatchesFromStringsCall(lines) ==
    /\ watches' = WatchesLoadFromStrings(watches, lines)
    /\ ReturnToggle("LoadWatchesFromStrings", <<lines>>, watches)
    /\ UNCHANGED <<breakpoints, memchecks, machine>>

SaveWatchesToStringsCall ==
    /\ Return("SaveWatchesToStrings", <<>>,
              Result(WatchesSaveToStrings(watches), <<>>, FALSE))
    /\ UNCHANGED <<sets, machine>>

ClearWatches(ws) == <<>>

ClearWatchesCall ==
    /\ watches' = ClearWatches(watches)
    /\ Return("ClearWatches", <<>>, Void)
    /\ UNCHANGED <<breakpoints, memchecks, machine>>

(***************************************************************************)
(* Machine-facing methods (one caller, each call atomic).                  *)
(***************************************************************************)
DisassembleCall(address) ==
    /\ \E op \in HostRead(coreState, ram, address) :
         Return("Disassemble", <<address>>,
                Disassemble(IsAlive(coreState), coreState, HostIsRAMAddress(address),
                            op, address))
    /\ UNCHANGED <<sets, machine>>

GetRawMemoryStringCall(memory, address) ==
    /\ \E word \in HostRead(coreState, ram, address) :
         Return("GetRawMemoryString", <<memory, address>>,
                GetRawMemoryString(IsAlive(coreState), HostIsRAMAddress(address),
                                   memory, address, word))
    /\ UNCHANGED <<sets, machine>>

ReadMemoryCall(address) ==
    /\ \E word \in HostRead(coreState, ram, address) :
         Return("ReadMemory", <<address>>, ReadMemory(word))
    /\ UNCHANGED <<sets, machine>>

ReadExtraMemoryCall(memory, address) ==
    /\ \E word \in HostRead(coreState, ram, address) :
         Return("ReadExtraMemory", <<memory, address>>,
                ReadExtraMemory(memory, address, word))
    /\ UNCHANGED <<sets, machine>>

ReadInstructionCall(address) ==
    /\ \E word \in HostRead(coreState, ram, address) :
         Return("ReadInstruction", <<address>>, ReadInstruction(word))
    /\ UNCHANGED <<sets, machine>>

IsAliveCall ==
    /\ Return("IsAlive", <<>>,
              Result(IsAlive(coreState), <<"IsRunningAndStarted">>, FALSE))
    /\ UNCHANGED <<sets, machine>>

\* a Patch that schedules the invalidation before it writes
PatchStepsScheduleFirst == <<"ScheduleInvalidateCacheThreadSafe", "HostWrite_U32">>

\* PPCDebugInterface::Patch: its two collaborator calls, in order
PatchSteps == <<"HostWrite_U32", "ScheduleInvalidateCacheThreadSafe">>

\* a Patch that also drops the breakpoint at the patched address
PatchCallDroppingBreakpoint(address, value) ==
    /\ Len(pending) < MaxPending
    /\ ram' = HostWrite(ram, value, address)
    /\ pending' = Append(pending, address)
    /\ breakpoints' = BreakPointsRemove(breakpoints, address)
    /\ Return("Patch", <<address, value>>,
              Result("", <<"HostWrite_U32", "ScheduleInvalidateCacheThreadSafe">>, FALSE))
    /\ UNCHANGED <<memchecks, watches, coreState, pc, icache, aram>>

PatchCall(address, value) ==
    /\ Len(pending) < MaxPending
    /\ ram' = HostWrite(ram, value, address)
    /\ pending' = Append(pending, address)
    /\ Return("Patch", <<address, value>>, Result("", PatchSteps, FALSE))
    /\ UNCHANGED <<sets, coreState, pc, icache, aram>>

\* GetColor(address) when the symbol database answers symbol for the address
GetColorLookup(address, symbol) ==
    /\ Return("GetColor", <<address, symbol>>,
              GetColor(IsAlive(coreState), HostIsRAMAddress(address), symbol))
    /\ UNCHANGED <<sets, machine>>

GetColorCall(address) == GetColorLookup(address, GetSymbolFromAddr(address))

GetDescriptionCall(address) ==
    /\ Return("GetDescription", <<address>>, GetDescription(address))
    /\ UNCHANGED <<sets, machine>>

GetPCCall ==
    /\ Return("GetPC", <<>>, GetPC(pc))
    /\ UNCHANGED <<sets, machine>>

SetPCCall(address) ==
    /\ pc' = address
    /\ Return("SetPC", <<address>>, Result("", <<"pc.write">>, FALSE))
    /\ UNCHANGED <<sets, coreState, ram, pending, icache, aram>>

RunToBreakpointCall ==
    /\ Return("RunToBreakpoint", <<>>, Void)
    /\ UNCHANGED <<sets, machine>>

\* a Clear that forgets the watches
ClearKeepingWatches(bps, mcs, ws) ==
    [breakpoints |-> ClearAllBreakpoints(bps),
     memchecks |-> ClearAllMemChecks(mcs),
     watches |-> ws]

Clear(bps, mcs, ws) ==
    [breakpoints |-> ClearAllBreakpoints(bps),
     memchecks |-> ClearAllMemChecks(mcs),
     watches |-> ClearWatches(ws)]

ClearCall ==
    /\ breakpoints' = Clear(breakpoints, memchecks, watches).breakpoints
    /\ memchecks' = Clear(breakpoints, memchecks, watches).memchecks
    /\ watches' = Clear(breakpoints, memchecks, watches).watches
    /\ ReturnToggle("Clear", <<>>, <<breakpoints, memchecks, watches>>)
    /\ UNCHANGED machine

(***************************************************************************)
(* The emulated machine (its own thread): start, boot, pause, resume,      *)
(* reset, stop, and the CPU thread applying a scheduled invalidation.      *)
(***************************************************************************)
MachineStep ==
    /\ last' = NoCall
    /\ hist' = <<>>
    /\ UNCHANGED <<sets, thr>>

CoreStart ==
    /\ coreState = "Uninitialized"
    /\ coreState' = "Starting"
    /\ pc' = ResetVector
    /\ MachineStep
    /\ UNCHANGED <<ram, pending, icache, aram>>

CoreBooted ==
    /\ coreState = "Starting"
    /\ coreState' = "Running"
    /\ MachineStep
    /\ UNCHANGED <<pc, ram, pending, icache, aram>>

CorePause ==
    /\ coreState = "Running"
    /\ coreState' = "Paused"
    /\ MachineStep
    /\ UNCHANGED <<pc, ram, pending, icache, aram>>

CoreResume ==
    /\ coreState = "Paused"
    /\ coreState' = "Running"
    /\ MachineStep
    /\ UNCHANGED <<pc, ram, pending, icache, aram>>

CoreReset ==
    /\ coreState \in {"Running", "Paused"}
    /\ pc' = ResetVector
    /\ MachineStep
    /\ UNCHANGED <<coreState, ram, pending, icache, aram>>

CoreStop ==
    /\ coreState \in {"Starting", "Running", "Paused"}
    /\ coreState' = "Stopping"
    /\ MachineStep
    /\ UNCHANGED <<pc, ram, pending, icache, aram>>

CoreStopped ==
    /\ coreState = "Stopping"
    /\ coreState' = "Uninitialized"
    /\ pending' = <<>>
    /\ icache' = EmptyICache
    /\ MachineStep
    /\ UNCHANGED <<pc, ram, aram>>

\* the CPU thread runs the scheduled event: the entry for the address is dropped
ApplyInvalidate ==
    /\ coreState = "Running"
    /\ pending # <<>>
    /\ pending' = Tail(pending)
    /\ icache' = [a \in RamAddrs |-> IF a = Head(pending) THEN NotCached ELSE icache[a]]
    /\ MachineStep
    /\ UNCHANGED <<coreState, pc, ram, aram>>

\* the CPU thread fetches an instruction: a miss fills the entry from memory
CoreFetch(address) ==
    /\ coreState = "Running"
    /\ address \in RamAddrs
    /\ icache[address] = NotCached
    /\ icache' = [icache EXCEPT ![address] = <<ram[address]>>]
    /\ MachineStep
    /\ UNCHANGED <<coreState, pc, ram, aram, pending>>

\* the DSP side stores a byte into ARAM
DSPWrite(address, byte) ==
    /\ address \in AramAddrs
    /\ aram' = [aram EXCEPT ![address] = byte]
    /\ MachineStep
    /\ UNCHANGED <<coreState, pc, ram, pending, icache>>

MachineNext ==
    \/ CoreStart
    \/ CoreBooted
    \/ CorePause
    \/ CoreResume
    \/ CoreReset
    \/ CoreStop
    \/ CoreStopped

(***************************************************************************)
(* SpecSets: one debugger thread working on the breakpoint and memcheck    *)
(* sets.                                                                   *)
(***************************************************************************)
NextSets ==
    \/ \E a \in Addrs : IsBreakpointCall(a)
    \/ \E a \in Addrs : SetBreakpointCall(a)
    \/ \E a \in Addrs : ClearBreakpointCall(a)
    \/ ClearAllBreakpointsCall
    \/ \E a \in Addrs : ToggleBreakpointCall(a)
    \/ ClearAllMemChecksCall
    \/ \E a \in Addrs, size \in {1, 4} : IsMemCheckCall(a, size)
    \/ \E a \in Addrs, f \in FlagTriples : ToggleMemCheckCall(a, f[1], f[2], f[3])
    \/ \E rg \in ExtRanges : MemChecksAddExternal(rg, <<TRUE, TRUE, FALSE>>)

SpecSets == Init /\ [][NextSets]_vars

\* the last two calls were the same toggle method on the same address
TwoToggles(op) ==
    /\ Len(hist) = 2
    /\ hist[1].op = op
    /\ hist[2].op = op
    /\ hist[1].address = hist[2].address

\* C1: ToggleBreakpoint(a) twice in a row leaves the breakpoint set exactly as it
\* was before the first call (membership of a and of every other address).
C1_ToggleBreakpointTwice ==
    TwoToggles("ToggleBreakpoint") => breakpoints = hist[2].before

\* C1 witness: two consecutive toggles of an address that was a breakpoint, beside
\* another breakpoint.
C1_Witness ==
    /\ TwoToggles("ToggleBreakpoint")
    /\ hist[2].address \in hist[2].before
    /\ hist[2].before # {hist[2].address}
    /\ hist[1].before # hist[2].before

\* C2 as stated: ToggleMemCheck(a, ..) twice in a row leaves the memcheck set equal
\* to the set before the first call, for every starting set.
C2_Original ==
    TwoToggles("ToggleMemCheck") => memchecks = hist[2].before

\* C2 amended: when no record of the starting set hits a, ToggleMemCheck(a, r1, w1,
\* l1) then ToggleMemCheck(a, r2, w2, l2) leaves the memcheck set equal to the set
\* before the first call, whatever the second flags are.
C2_ToggleMemCheckTwiceFromMiss ==
    (TwoToggles("ToggleMemCheck") /\ ~IsMemCheck(hist[2].before, hist[2].address, 1))
        => memchecks = hist[2].before

\* C2 witness: toggle-on then toggle-off with other flags, beside a record that
\* does not hit the address.
C2_Witness ==
    /\ TwoToggles("ToggleMemCheck")
    /\ ~IsMemCheck(hist[2].before, hist[2].address, 1)
    /\ hist[2].before # <<>>
    /\ Len(hist[1].before) = Len(hist[2].before) + 1
    /\ hist[1].before[Len(hist[1].before)].is_break_on_read # last.args[2]
    /\ memchecks = hist[2].before

(***************************************************************************)
(* SpecMachine: one debugger thread calling the machine-facing methods     *)
(* while the machine changes state between the calls.                      *)
(***************************************************************************)
NextMachine ==
    \/ MachineNext
    \/ ApplyInvalidate
    \/ \E a \in Addrs : DisassembleCall(a)
    \/ \E m \in Spaces, a \in Addrs : GetRawMemoryStringCall(m, a)
    \/ \E a \in Addrs : ReadMemoryCall(a)
    \/ \E m \in Spaces, a \in Addrs : ReadExtraMemoryCall(m, a)
    \/ \E a \in Addrs : ReadInstructionCall(a)
    \/ IsAliveCall
    \/ \E a \in Addrs, v \in Words : PatchCall(a, v)
    \/ \E a \in Addrs : GetColorCall(a)
    \/ \E a \in Addrs : GetDescriptionCall(a)
    \/ GetPCCall
    \/ \E a \in Addrs : SetPCCall(a)
    \/ RunToBreakpointCall

SpecMachine == Init /\ [][NextMachine]_vars

\* collaborator calls that read or write the live machine
MachineAccess ==
    {"GetState", "HostIsRAMAddress", "HostRead_U32", "HostRead_Instruction", "ReadARAM",
     "HostWrite_U32", "ScheduleInvalidateCacheThreadSafe", "pc.read", "pc.write"}

\* every machine access of the call comes after an IsAlive evaluation of that call,
\* and a call that saw the machine not alive makes no machine access
Gated(log) ==
    /\ \A i \in 1..Len(log) :
         log[i] \in MachineAccess
           => \E j \in 1..(i - 1) : log[j] \in {"IsAlive=true", "IsAlive=false"}
    /\ (\E j \in 1..Len(log) : log[j] = "IsAlive=false")
         => \A i \in 1..Len(log) : log[i] \notin MachineAccess

\* C4 as stated: in every call of the nine methods the machine access is preceded
\* by an IsAlive evaluation of the same call.
C4_Original ==
    last.op \in {"Disassemble", "GetRawMemoryString", "ReadMemory", "ReadExtraMemory",
                 "ReadInstruction", "Patch", "GetColor", "GetPC", "SetPC"}
        => Gated(last.log)

\* C4 amended: in every call of Disassemble, GetRawMemoryString and GetColor the
\* machine access is preceded by an IsAlive evaluation of the same call, and a call
\* that observed the machine as not alive makes no machine access.
C4_LivenessGatesDisplayCalls ==
    last.op \in {"Disassemble", "GetRawMemoryString", "GetColor"} => Gated(last.log)

\* C4 witness: a Disassemble call that fetched an instruction after seeing the
\* machine alive.
C4_Witness ==
    /\ last.op = "Disassemble"
    /\ last.log = <<"IsAlive=true", "GetState", "HostIsRAMAddress", "HostRead_Instruction">>

\* C6: Disassemble(address) selects its result by the machine state at the call:
\* not alive -> "", alive and not paused -> "<unknown>", alive, paused and not RAM
\* -> "(No RAM here)", and disassembler text only when alive, paused and valid.
C6_DisassembleByState ==
    last.op = "Disassemble" =>
      LET a == last.args[1]
          alive == IsRunningAndStarted(coreState)
          paused == coreState = "Paused"
          valid == HostIsRAMAddress(a)
          sentinels == {"", "<unknown>", "(No RAM here)"}
      IN  /\ ~last.fault
          /\ ~alive => last.ret = ""
          /\ (alive /\ ~paused) => last.ret = "<unknown>"
          /\ (alive /\ paused /\ ~valid) => last.ret = "(No RAM here)"
          /\ (alive /\ paused /\ valid)
               => /\ last.ret \notin sentinels
                  /\ last.ret \in {GekkoDisassemble(ram[a], a),
                                   GekkoDisassemble(ram[a], a) \o " (hle)"}
          /\ last.ret \notin sentinels => (alive /\ paused /\ valid)

\* C6 witness: a Disassemble call on a running (alive, not paused) machine that
\* answered "<unknown>" for a valid RAM address.
C6_Witness ==
    /\ last.op = "Disassemble"
    /\ coreState = "Running"
    /\ HostIsRAMAddress(last.args[1])
    /\ last.ret = "<unknown>"

\* C7: GetRawMemoryString returns "<unknwn>" whenever the machine is not alive,
\* reading no memory; alive with memorySpace 0 it returns the 8 uppercase hex
\* digits of the word at a valid RAM address, with no suffix, and "--------" for
\* an address that is not valid RAM.
C7_RawMemoryStringPrimary ==
    last.op = "GetRawMemoryString" =>
      LET memory == last.args[1]
          a == last.args[2]
          alive == IsRunningAndStarted(coreState)
      IN  /\ ~alive => /\ last.ret = "<unknwn>"
                       /\ \A i \in 1..Len(last.log) : last.log[i] \notin MachineAccess
          /\ (alive /\ memory = 0 /\ HostIsRAMAddress(a))
               => /\ last.ret = Hex8(ram[a])
                  /\ Len(last.ret) = 8
                  /\ ram[a] = <<1024, 0>> => last.ret = "04000000"
                  /\ ram[a] = <<65535, 65535>> => last.ret = "FFFFFFFF"
          /\ (alive /\ memory = 0 /\ ~HostIsRAMAddress(a)) => last.ret = "--------"

\* C7 witness: a call on a machine that is not alive, for the secondary space.
C7_Witness ==
    /\ last.op = "GetRawMemoryString"
    /\ ~IsRunningAndStarted(coreState)
    /\ last.args[1] = 1
    /\ last.ret = "<unknwn>"

\* C8: alive with memorySpace nonzero, GetRawMemoryString returns the 8 hex digits
\* of ReadExtraMemory(memorySpace, address) followed by " (ARAM)" for every
\* address, valid primary RAM or not; for a memorySpace other than 1 the digits
\* are 00000000.
C8_RawMemoryStringSecondary ==
    (last.op = "GetRawMemoryString" /\ IsRunningAndStarted(coreState) /\ last.args[1] # 0)
      => LET memory == last.args[1]
             a == last.args[2]
         IN  /\ memory = 1
                  => last.ret = HexN(ReadARAM(a), 2) \o HexN(ReadARAM(U32Add(a, 1)), 2)
                                  \o HexN(ReadARAM(U32Add(a, 2)), 2)
                                  \o HexN(ReadARAM(U32Add(a, 3)), 2) \o " (ARAM)"
             /\ memory # 1 => last.ret = "00000000 (ARAM)"

\* C8 witness: the secondary space read at an address that is not valid primary
\* RAM, and whose four bytes wrap around the 32-bit range.
C8_Witness ==
    /\ last.op = "GetRawMemoryString"
    /\ IsRunningAndStarted(coreState)
    /\ last.args[1] = 1
    /\ ~HostIsRAMAddress(last.args[2])
    /\ Len(last.ret) = 15

(***************************************************************************)
(* SpecConc: two debugger-side callers on the breakpoint and memcheck      *)
(* sets.  The facade holds no lock, so a toggle is two steps, its check    *)
(* and its Add/Remove, and the other caller may run in between.  A round   *)
(* is one call by each caller; thr.start is the sets when the round began. *)
(***************************************************************************)
Callers == {1, 2}

IdleCall == [pc |-> "idle", op |-> "none", args |-> <<>>, hit |-> FALSE]

InitConc ==
    /\ breakpoints = {}
    /\ memchecks = <<>>
    /\ watches = <<>>
    /\ coreState = "Uninitialized"
    /\ pc = ResetVector
    /\ ram = [a \in RamAddrs |-> <<0, 0>>]
    /\ aram = InitialARAM
    /\ pending = <<>>
    /\ icache = EmptyICache
    /\ last = NoCall
    /\ hist = <<>>
    /\ thr = [start |-> <<{}, <<>>>>, call |-> [t \in Callers |-> IdleCall]]

\* caller t moves to record c; the first call of a round snapshots the sets
Advance(t, c) ==
    thr' = [start |-> IF \A u \in Callers : thr.call[u].pc = "idle"
                        THEN <<breakpoints, memchecks>> ELSE thr.start,
            call |-> [thr.call EXCEPT ![t] = c]]

\* ToggleBreakpoint, line 184: the membership check
ToggleBreakpointCheck(t, address) ==
    /\ thr.call[t].pc = "idle"
    /\ Advance(t, [pc |-> "checked", op |-> "ToggleBreakpoint", args |-> <<address>>,
                   hit |-> IsAddressBreakPoint(breakpoints, address)])
    /\ UNCHANGED <<sets, machine, last, hist>>

\* ToggleBreakpoint, lines 185-187: Remove or Add, by what the check saw
ToggleBreakpointApply(t) ==
    /\ thr.call[t].pc = "checked"
    /\ thr.call[t].op = "ToggleBreakpoint"
    /\ breakpoints' = ToggleBreakpointAct(breakpoints, thr.call[t].hit, thr.call[t].args[1])
    /\ Advance(t, [thr.call[t] EXCEPT !.pc = "done"])
    /\ UNCHANGED <<memchecks, watches, machine, last, hist>>

\* ToggleMemCheck, line 202: the IsMemCheck check
ToggleMemCheckCheck(t, address, read, write, log) ==
    /\ thr.call[t].pc = "idle"
    /\ Len(memchecks) < MaxMemChecks \/ IsMemCheck(memchecks, address, 1)
    /\ Advance(t, [pc |-> "checked", op |-> "ToggleMemCheck",
                   args |-> <<address, read, write, log>>,
                   hit |-> IsMemCheck(memchecks, address, 1)])
    /\ UNCHANGED <<sets, machine, last, hist>>

\* ToggleMemCheck, lines 203-219: Add or Remove, by what the check saw
ToggleMemCheckApply(t) ==
    /\ thr.call[t].pc = "checked"
    /\ thr.call[t].op = "ToggleMemCheck"
    /\ memchecks' = ToggleMemCheckAct(memchecks, thr.call[t].hit, thr.call[t].args[1],
                                      thr.call[t].args[2], thr.call[t].args[3],
                                      thr.call[t].args[4])
    /\ Advance(t, [thr.call[t] EXCEPT !.pc = "done"])
    /\ UNCHANGED <<breakpoints, watches, machine, last, hist>>

\* SetBreakpoint: one Add
SetBreakpointBy(t, address) ==
    /\ thr.call[t].pc = "idle"
    /\ breakpoints' = BreakPointsAdd(breakpoints, address)
    /\ Advance(t, [pc |-> "done", op |-> "SetBreakpoint", args |-> <<address>>,
                   hit |-> FALSE])
    /\ UNCHANGED <<memchecks, watches, machine, last, hist>>

\* ClearBreakpoint: one Remove
ClearBreakpointBy(t, address) ==
    /\ thr.call[t].pc = "idle"
    /\ breakpoints' = BreakPointsRemove(breakpoints, address)
    /\ Advance(t, [pc |-> "done", op |-> "ClearBreakpoint", args |-> <<address>>,
                   hit |-> FALSE])
    /\ UNCHANGED <<memchecks, watches, machine, last, hist>>

AllDone == \A t \in Callers : thr.call[t].pc = "done"

\* both calls have returned: the next round starts
RoundEnd ==
    /\ AllDone
    /\ thr' = [thr EXCEPT !.call = [t \in Callers |-> IdleCall]]
    /\ UNCHANGED <<sets, machine, last, hist>>

NextConc ==
    \/ \E t \in Callers, a \in SessAddrs : ToggleBreakpointCheck(t, a)
    \/ \E t \in Callers : ToggleBreakpointApply(t)
    \/ \E t \in Callers, a \in SessAddrs :
         ToggleMemCheckCheck(t, a, TRUE, FALSE, FALSE)
    \/ \E t \in Callers : ToggleMemCheckApply(t)
    \/ \E t \in Callers, a \in SessAddrs : SetBreakpointBy(t, a)
    \/ \E t \in Callers, a \in SessAddrs : ClearBreakpointBy(t, a)
    \/ RoundEnd

SpecConc == InitConc /\ [][NextConc]_vars

\* the call c run alone (atomically) on the sets st = <<breakpoints, memchecks>>
RunAlone(st, c) ==
    CASE c.op = "ToggleBreakpoint" -> <<ToggleBreakpoint(st[1], c.args[1]), st[2]>>
      [] c.op = "ToggleMemCheck" ->
           <<st[1], ToggleMemCheck(st[2], c.args[1], c.args[2], c.args[3], c.args[4])>>
      [] c.op = "SetBreakpoint" -> <<BreakPointsAdd(st[1], c.args[1]), st[2]>>
      [] c.op = "ClearBreakpoint" -> <<BreakPointsRemove(st[1], c.args[1]), st[2]>>
      [] OTHER -> st

\* C3: the toggles are atomic check-then-act: whenever both callers' calls have
\* returned, the sets are what one of the two sequential orders of the same two
\* calls produces from the sets at the start of the round.
C3_TogglesAtomic ==
    AllDone =>
      <<breakpoints, memchecks>> \in
        {RunAlone(RunAlone(thr.start, thr.call[1]), thr.call[2]),
         RunAlone(RunAlone(thr.start, thr.call[2]), thr.call[1])}

(***************************************************************************)
(* SpecRace: the debugger thread inside Disassemble, GetRawMemoryString or *)
(* GetColor while the machine runs on its own thread.  IsAlive and         *)
(* GetState are snapshot reads: the machine may change state after each.   *)
(***************************************************************************)
IdleRace == [pc |-> "idle", op |-> "none", args |-> <<>>, alive |-> FALSE, state |-> "unread"]

InitRace ==
    /\ breakpoints = {}
    /\ memchecks = <<>>
    /\ watches = <<>>
    /\ coreState = "Uninitialized"
    /\ pc = ResetVector
    /\ ram = [a \in RamAddrs |-> <<0, 0>>]
    /\ aram = InitialARAM
    /\ pending = <<>>
    /\ icache = EmptyICache
    /\ last = NoCall
    /\ hist = <<>>
    /\ thr = IdleRace

\* the call starts: its IsAlive() evaluation (lines 91, 120, 233)
RaceIsAlive(op, args) ==
    /\ thr.pc = "idle"
    /\ thr' = [pc |-> "alive", op |-> op, args |-> args,
               alive |-> IsAlive(coreState), state |-> "unread"]
    /\ UNCHANGED <<sets, machine, last, hist>>

\* Disassemble, line 94: Core::GetState()
RaceGetState ==
    /\ thr.pc = "alive"
    /\ thr.op = "Disassemble"
    /\ thr.alive
    /\ thr' = [thr EXCEPT !.pc = "state", !.state = coreState]
    /\ UNCHANGED <<sets, machine, last, hist>>

\* the rest of the call: the RAM check, the read (on the machine as it is now) and
\* the return
RaceFinish ==
    /\ \/ thr.pc = "state"
       \/ thr.pc = "alive" /\ (thr.op # "Disassemble" \/ ~thr.alive)
    /\ \E word \in HostRead(coreState, ram, thr.args[Len(thr.args)]) :
         LET address == thr.args[Len(thr.args)]
         IN  Returned(thr.op, thr.args,
               CASE thr.op = "Disassemble" ->
                      Disassemble(thr.alive, thr.state, HostIsRAMAddress(address),
                                  word, address)
                 [] thr.op = "GetRawMemoryString" ->
                      GetRawMemoryString(thr.alive, HostIsRAMAddress(address),
                                         thr.args[1], address, word)
                 [] OTHER ->
                      GetColor(thr.alive, HostIsRAMAddress(address),
                               GetSymbolFromAddr(address)))
    /\ thr' = IdleRace
    /\ UNCHANGED <<sets, machine>>

NextRace ==
    \/ MachineNext
    \/ \E a \in Addrs : RaceIsAlive("Disassemble", <<a>>)
    \/ \E m \in {0, 1}, a \in Addrs : RaceIsAlive("GetRawMemoryString", <<m, a>>)
    \/ \E a \in Addrs : RaceIsAlive("GetColor", <<a>>)
    \/ RaceGetState
    \/ RaceFinish

SpecRace == InitRace /\ [][NextRace]_vars

\* C5: a Disassemble, GetRawMemoryString or GetColor call whose liveness check
\* returned true and whose machine then stopped being alive still completes with a
\* sentinel or a formatted value: no such call ends in a fault.
C5_RaceTolerated ==
    last.op \in {"Disassemble", "GetRawMemoryString", "GetColor"} => ~last.fault

(***************************************************************************)
(* SpecPatch: the debugger thread inside Patch while the CPU thread        *)
(* fetches instructions through its cache and runs the scheduled           *)
(* invalidations.  Patch is two collaborator calls with no lock around     *)
(* them, so the CPU thread may run in between.                             *)
(***************************************************************************)
IdlePatch == [pc |-> 0, args |-> <<>>]

InitPatch ==
    /\ breakpoints = {}
    /\ memchecks = <<>>
    /\ watches = <<>>
    /\ coreState = "Uninitialized"
    /\ pc = ResetVector
    /\ ram = [a \in RamAddrs |-> <<0, 0>>]
    /\ aram = InitialARAM
    /\ pending = <<>>
    /\ icache = EmptyICache
    /\ last = NoCall
    /\ hist = <<>>
    /\ thr = IdlePatch

\* one collaborator call of Patch(address, value)
PatchDo(step, address, value) ==
    IF step = "HostWrite_U32"
      THEN ram' = HostWrite(ram, value, address) /\ pending' = pending
      ELSE pending' = Append(pending, address) /\ ram' = ram

\* Patch, line 224
PatchFirst(address, value) ==
    /\ thr.pc = 0
    /\ Len(pending) < MaxPending
    /\ PatchDo(PatchSteps[1], address, value)
    /\ thr' = [pc |-> 1, args |-> <<address, value>>]
    /\ UNCHANGED <<sets, coreState, pc, icache, aram, last, hist>>

\* Patch, line 225, and the return
PatchSecond ==
    /\ thr.pc = 1
    /\ PatchDo(PatchSteps[2], thr.args[1], thr.args[2])
    /\ Returned("Patch", thr.args, Result("", PatchSteps, FALSE))
    /\ thr' = IdlePatch
    /\ UNCHANGED <<sets, coreState, pc, icache, aram>>

NextPatch ==
    \/ MachineNext
    \/ ApplyInvalidate
    \/ \E a \in Addrs : CoreFetch(a)
    \/ \E a \in Addrs, v \in Words : PatchFirst(a, v)
    \/ PatchSecond

SpecPatch == InitPatch /\ [][NextPatch]_vars

\* the cached word for address is not the word in memory
Stale(address) == icache[address] # NotCached /\ icache[address] # <<ram[address]>>

\* C11: every Patch(address, value) first writes value to primary memory at
\* address and then hands exactly one invalidation request for that address to
\* the scheduler: the write step changes memory only, the request step appends
\* the address to the pending requests only, the facade never touches the
\* instruction cache, and once no Patch is in progress and the execution core has
\* applied every pending request, no cache entry differs from the patched memory.
C11_PatchWritesThenSchedules ==
    /\ [][(thr.pc = 0 /\ thr'.pc = 1)
            => /\ ram' = HostWrite(ram, thr'.args[2], thr'.args[1])
               /\ UNCHANGED <<pending, icache, aram>>]_vars
    /\ [][(thr.pc = 1 /\ thr'.pc = 0)
            => /\ pending' = Append(pending, thr.args[1])
               /\ UNCHANGED <<ram, icache, aram>>
               /\ last'.op = "Patch"
               /\ last'.log = <<"HostWrite_U32", "ScheduleInvalidateCacheThreadSafe">>]_vars
    /\ []((thr.pc = 0 /\ pending = <<>>) => \A a \in RamAddrs : ~Stale(a))

\* C11 witness: Patch has returned while the cache still holds the word from before
\* the patch, and the request for that address is pending.
C11_Witness ==
    /\ last.op = "Patch"
    /\ thr.pc = 0
    /\ HostIsRAMAddress(last.args[1])
    /\ Stale(last.args[1])
    /\ ram[last.args[1]] = last.args[2]
    /\ pending = <<last.args[1]>>

(***************************************************************************)
(* SpecColor: GetColor over the answers the symbol database can give,      *)
(* while the machine changes state between the calls.                      *)
(***************************************************************************)
MaxSymbolIndex == 9

\* what g_symbolDB.GetSymbolFromAddr can answer: nullptr, a function, a non-function
Symbols ==
    {NoSymbol}
      \cup {[type |-> "Function", index |-> i] : i \in 0..MaxSymbolIndex}
      \cup {[type |-> "Data", index |-> i] : i \in {3, 9}}

NextColor ==
    \/ MachineNext
    \/ \E a \in Addrs, sym \in Symbols : GetColorLookup(a, sym)

SpecColor == Init /\ [][NextColor]_vars

\* the case of GetColor that (liveness, RAM validity, lookup result) selects
ColorCase(alive, isram, symbol) ==
    IF ~alive THEN "unknown"
    ELSE IF ~isram THEN "invalid"
    ELSE IF symbol = NoSymbol THEN "nosymbol"
    ELSE IF symbol.type # "Function" THEN "nonfunction"
    ELSE "function"

\* the inputs GetColor can observe
ColorInputs == BOOLEAN \X BOOLEAN \X Symbols

\* C12 amended: GetColor is a function of (liveness, RAM validity, lookup result):
\* not alive -> 0xFFFFFF, alive and not RAM -> 0xEEEEEE, no symbol -> 0xFFFFFF,
\* non-function symbol -> 0xEEEEFF, function symbol -> palette[index mod 6]; two
\* function symbols get the same color exactly when their indices agree mod 6;
\* the invalid and the non-function colors differ from each other and from
\* 0xFFFFFF, while the not-alive and the no-symbol outcomes are the same color.
C12_ColorByCase ==
    last.op = "GetColor" =>
      LET alive == IsRunningAndStarted(coreState)
          isram == HostIsRAMAddress(last.args[1])
          sym == last.args[2]
          case == ColorCase(alive, isram, sym)
      IN  /\ case = "unknown" => last.ret = 16777215
          /\ case = "invalid" => last.ret = 15658734
          /\ case = "nosymbol" => last.ret = 16777215
          /\ case = "nonfunction" => last.ret = 15658751
          /\ case = "function"
               => /\ last.ret = <<13697023, 16765136, 14211327, 16765183, 13696976,
                                  16777168>>[(sym.index % 6) + 1]
                  /\ \A s2 \in Symbols :
                       s2.type = "Function"
                         => ((s2.index % 6 = sym.index % 6)
                               <=> GetColor(TRUE, TRUE, s2).ret = last.ret)
          /\ \A in \in ColorInputs :
               LET other == ColorCase(in[1], in[2], in[3])
               IN  ({case, other} \subseteq {"unknown", "invalid", "nosymbol", "nonfunction"}
                    /\ case # other)
                     => ((GetColor(in[1], in[2], in[3]).ret = last.ret)
                           <=> {case, other} = {"unknown", "nosymbol"})

\* C12 as stated: the four non-palette outcomes are pairwise distinguishable.
C12_Original ==
    last.op = "GetColor" =>
      LET case == ColorCase(IsRunningAndStarted(coreState),
                            HostIsRAMAddress(last.args[1]), last.args[2])
      IN  \A in \in ColorInputs :
            LET other == ColorCase(in[1], in[2], in[3])
            IN  ({case, other} \subseteq {"unknown", "invalid", "nosymbol", "nonfunction"}
                 /\ case # other)
                  => GetColor(in[1], in[2], in[3]).ret # last.ret

\* C12 witness: GetColor on a live machine for a valid address owned by the
\* function symbol of index 9, colored like index 3.
C12_Witness ==
    /\ last.op = "GetColor"
    /\ IsRunningAndStarted(coreState)
    /\ HostIsRAMAddress(last.args[1])
    /\ last.args[2] = [type |-> "Function", index |-> 9]
    /\ last.ret = 16765183
    /\ last.ret = GetColor(TRUE, TRUE, [type |-> "Function", index |-> 3]).ret

(***************************************************************************)
(* Spec: one debugger thread using the whole facade while the machine      *)
(* changes state between the calls.                                        *)
(***************************************************************************)
SessMaxWatches == 1

\* persisted watch lines: none, one well-formed line, a malformed line beside it
SessLines ==
    {<<>>,
     <<WatchToString(Watch(<<32768, 4096>>, <<"a">>, TRUE))>>,
     <<<<"n", "o", "t", "-", "a", "-", "l", "i", "n", "e">>,
       WatchToString(Watch(<<32768, 4096>>, <<"p", "c">>, TRUE))>>}

Next ==
    \/ MachineNext
    \/ ApplyInvalidate
    \/ \E a \in SessAddrs : IsBreakpointCall(a)
    \/ \E a \in SessAddrs : SetBreakpointCall(a)
    \/ \E a \in SessAddrs : ClearBreakpointCall(a)
    \/ ClearAllBreakpointsCall
    \/ \E a \in SessAddrs : ToggleBreakpointCall(a)
    \/ ClearAllMemChecksCall
    \/ \E a \in SessAddrs : IsMemCheckCall(a, 1)
    \/ ToggleMemCheckCall(<<32768, 4096>>, TRUE, FALSE, TRUE)
    \/ \E n \in Names : Len(watches) < SessMaxWatches /\ SetWatchCall(<<32768, 4096>>, n)
    \/ \E i \in 0..(MaxWatches - 1) : i < Len(watches) /\ GetWatchCall(i)
    \/ GetWatchesCall
    \/ UnsetWatchCall(<<32768, 4096>>)
    \/ \E i \in 0..(MaxWatches - 1) :
         i < Len(watches) /\ UpdateWatchCall(i, <<32768, 4096>>, <<"a">>)
    \/ \E i \in 0..(MaxWatches - 1) :
         i < Len(watches) /\ UpdateWatchAddressCall(i, <<32768, 4096>>)
    \/ \E i \in 0..(MaxWatches - 1) :
         i < Len(watches) /\ UpdateWatchNameCall(i, <<"p", "c">>)
    \/ \E i \in 0..(MaxWatches - 1) : i < Len(watches) /\ EnableWatchCall(i)
    \/ \E i \in 0..(MaxWatches - 1) : i < Len(watches) /\ DisableWatchCall(i)
    \/ HasEnabledWatchCall(<<32768, 4096>>)
    \/ \E i \in 0..(MaxWatches - 1) : i < Len(watches) /\ RemoveWatchCall(i)
    \/ \E ls \in SessLines : Len(ls) <= SessMaxWatches + 1 /\ LoadWatchesFromStringsCall(ls)
    \/ SaveWatchesToStringsCall
    \/ ClearWatchesCall
    \/ \E a \in SessAddrs : DisassembleCall(a)
    \/ \E a \in SessAddrs : GetRawMemoryStringCall(0, a)
    \/ ReadMemoryCall(<<32768, 4096>>)
    \/ ReadExtraMemoryCall(1, <<32768, 4096>>)
    \/ ReadInstructionCall(<<32768, 4096>>)
    \/ IsAliveCall
    \/ pending = <<>> /\ PatchCall(<<32768, 4096>>, <<1024, 0>>)
    \/ GetColorCall(<<32768, 4096>>)
    \/ GetDescriptionCall(<<32768, 4096>>)
    \/ GetPCCall
    \/ SetPCCall(<<32768, 4096>>)
    \/ RunToBreakpointCall
    \/ ClearCall

Spec == Init /\ [][Next]_vars

\* C9: Clear() empties the breakpoint set, the memcheck set and the watch
\* sequence in every state of the machine: after it no address is a breakpoint,
\* IsMemCheck is false for every address and size, the watch sequence has length
\* 0, and neither the program counter nor memory has changed.
C9_ClearEmptiesAll ==
    [][last'.op = "Clear" =>
         /\ \A a \in Addrs : ~IsAddressBreakPoint(breakpoints', a)
         /\ \A a \in Addrs, size \in 1..4 : ~IsMemCheck(memchecks', a, size)
         /\ Len(watches') = 0
         /\ pc' = pc
         /\ ram' = ram]_vars

\* C9 witness: Clear() has just run on a paused machine with a breakpoint, a
\* memcheck and a watch set.
C9_Witness ==
    /\ last.op = "Clear"
    /\ coreState = "Paused"
    /\ hist[1].before[1] # {}
    /\ hist[1].before[2] # <<>>
    /\ hist[1].before[3] # <<>>
    /\ breakpoints = {}
    /\ memchecks = <<>>
    /\ watches = <<>>

\* the methods that are not set mutations, and a step of the machine ("none")
NonMutating ==
    {"none", "Disassemble", "GetRawMemoryString", "ReadMemory", "ReadExtraMemory",
     "ReadInstruction", "IsAlive", "IsBreakpoint", "IsMemCheck", "Patch", "GetColor",
     "GetDescription", "GetPC", "SetPC", "RunToBreakpoint"}

WatchNames == {<<"a">>, <<"a", " ", "b">>, <<" ", "a">>}

\* "80001000 a", "not-a-line", "80001004 pc"
ScenarioLines ==
    <<WatchToString(Watch(<<32768, 4096>>, <<"a">>, TRUE)),
      <<"n", "o", "t", "-", "a", "-", "l", "i", "n", "e">>,
      WatchToString(Watch(<<32768, 4100>>, <<"p", "c">>, TRUE))>>

\* persisted input: the scenario, a line with a non-hex address before a valid
\* one, a line with no name, a short lower-case address
LoadLines ==
    {ScenarioLines,
     <<<<"8", "0", "0", "0", "1", "0", "0", "G", " ", "x">>,
       WatchToString(Watch(<<65535, 65534>>, <<"a", " ", "b">>, TRUE))>>,
     <<<<"8", "0", "0", "0", "1", "0", "0", "0">>>>,
     <<<<"f", "f", "e", " ", "a">>>>}

NextWatches ==
    \/ \E a \in SessAddrs : SetWatchCall(a, <<"a">>)
    \/ \E n \in WatchNames : SetWatchCall(<<32768, 4096>>, n)
    \/ \E i \in {0, MaxWatches} : GetWatchCall(i)
    \/ \E i \in {0, MaxWatches} : UpdateWatchCall(i, <<65535, 65534>>, <<"a", " ", "b">>)
    \/ \E i \in {0, MaxWatches} : UpdateWatchAddressCall(i, <<65535, 65534>>)
    \/ \E i \in {0, MaxWatches} : UpdateWatchNameCall(i, <<"a">>)
    \/ \E i \in {0, MaxWatches} : EnableWatchCall(i)
    \/ \E i \in 0..MaxWatches : DisableWatchCall(i)
    \/ \E i \in 0..MaxWatches : RemoveWatchCall(i)
    \/ SaveWatchesToStringsCall
    \/ last.op = "SaveWatchesToStrings" /\ LoadWatchesFromStringsCall(last.ret)
    \/ \E ls \in LoadLines : LoadWatchesFromStringsCall(ls)
    \/ ClearWatchesCall

SpecWatches == Init /\ [][NextWatches]_vars

\* a name that is not empty and has no leading or trailing blank
CleanName(name) == name # <<>> /\ name[1] # " " /\ name[Len(name)] # " "

\* C14: for a watch sequence whose names are non-empty with no leading or
\* trailing blank, LoadWatchesFromStrings(SaveWatchesToStrings()) yields a
\* sequence of the same length with the same address and name at each index;
\* LoadWatchesFromStrings replaces the previous contents by one watch per
\* well-formed line, in the order of the lines, skipping each malformed line
\* alone; ["80001000 a", "not-a-line", "80001004 pc"] yields exactly two watches.
C14_SaveLoadRoundTrip ==
    last.op = "LoadWatchesFromStrings" =>
      LET lines == last.args[1]
          before == hist[1].before
          valid == SelectSeq(lines, WellFormedLine)
      IN  /\ (/\ lines = WatchesSaveToStrings(before)
               /\ \A i \in 1..Len(before) : CleanName(before[i].name))
                => /\ Len(watches) = Len(before)
                   /\ \A i \in 1..Len(before) :
                        /\ watches[i].address = before[i].address
                        /\ watches[i].name = before[i].name
          /\ Len(watches) = Len(valid)
          /\ \A i \in 1..Len(valid) : watches[i] = ParseLine(valid[i])
          /\ lines = ScenarioLines
                => watches = <<Watch(<<32768, 4096>>, <<"a">>, TRUE),
                               Watch(<<32768, 4100>>, <<"p", "c">>, TRUE)>>

\* C14 witness: two watches with different addresses, one of them disabled and
\* one named with an inner blank, saved and loaded back: same addresses and names.
C14_Witness ==
    /\ last.op = "LoadWatchesFromStrings"
    /\ Len(hist[1].before) = 2
    /\ last.args[1] = WatchesSaveToStrings(hist[1].before)
    /\ hist[1].before[1].address # hist[1].before[2].address
    /\ hist[1].before[1].name = <<"a", " ", "b">>
    /\ ~hist[1].before[1].is_enabled
    /\ CleanName(hist[1].before[2].name)
    /\ Len(watches) = 2
    /\ watches[1].name = <<"a", " ", "b">>
    /\ watches[1].address = hist[1].before[1].address
    /\ watches[2].address = hist[1].before[2].address

(***************************************************************************)
(* SpecExtra: ReadMemory and ReadExtraMemory while the machine changes     *)
(* state and the DSP side rewrites the ARAM bytes at the top of the        *)
(* 32-bit range.                                                           *)
(***************************************************************************)
\* byte values: 0x00, 0x80, 0xFF
AramBytes == {0, 128, 255}

\* 0xFFFFFFFE, 0xFFFFFFFF, 0x00000000, 0x00000001
TopWindow == {U32Add(<<65535, 65534>>, i) : i \in 0..3}

NextExtra ==
    \/ MachineNext
    \/ ApplyInvalidate
    \/ \E a \in TopWindow, b \in AramBytes : DSPWrite(a, b)
    \/ \E a \in Addrs : ReadMemoryCall(a)
    \/ \E m \in Spaces, a \in Addrs : ReadExtraMemoryCall(m, a)
    \/ PatchCall(<<32768, 4096>>, <<65535, 65535>>)

SpecExtra == Init /\ [][NextExtra]_vars

\* C15: ReadExtraMemory(0, address) has the outcome of ReadMemory(address);
\* ReadExtraMemory(1, address) is b0*2^24 + b1*2^16 + b2*2^8 + b3 for the ARAM
\* bytes bi at (address + i) mod 2^32, also with b0 >= 0x80 and at an address
\* whose four bytes wrap around the 32-bit range; for every other space the
\* result is 0 and nothing is read.
C15_ReadExtraMemoryBySpace ==
    last.op = "ReadExtraMemory" =>
      LET space == last.args[1]
          a == last.args[2]
      IN  /\ space = 0
               => /\ \E w \in HostRead(coreState, ram, a) :
                       /\ last.ret = ReadMemory(w).ret
                       /\ last.log = ReadMemory(w).log
                       /\ last.fault = ReadMemory(w).fault
                  /\ (IsRunningAndStarted(coreState) /\ HostIsRAMAddress(a))
                       => last.ret = ram[a]
          /\ space = 1
               => /\ last.ret = <<aram[U32Add(a, 0)] * 256 + aram[U32Add(a, 1)],
                                  aram[U32Add(a, 2)] * 256 + aram[U32Add(a, 3)]>>
                  /\ last.log = <<"ReadARAM", "ReadARAM", "ReadARAM", "ReadARAM">>
                  /\ ~last.fault
          /\ (space = 1 /\ a = <<65535, 65534>>)
               => last.ret = <<aram[<<65535, 65534>>] * 256 + aram[<<65535, 65535>>],
                               aram[<<0, 0>>] * 256 + aram[<<0, 1>>]>>
          /\ (space = 1 /\ a = <<32768, 4096>>) => last.ret = <<33220, 1866>>
          /\ space \notin {0, 1}
               => /\ last.ret = <<0, 0>>
                  /\ last.log = <<>>
                  /\ ~last.fault

\* C15 witness: the ARAM word at 0xFFFFFFFE read with b0 = 0x80, b1 = 0xFF and
\* b2, from address 0, 0xFF: 0x80FFFF00 + b3.
C15_Witness ==
    /\ last.op = "ReadExtraMemory"
    /\ last.args = <<1, <<65535, 65534>>>>
    /\ aram[<<65535, 65534>>] = 128
    /\ aram[<<65535, 65535>>] = 255
    /\ aram[<<0, 0>>] = 255
    /\ last.ret[1] = 33023
    /\ last.ret[2] \div 256 = 255

(***************************************************************************)
(* SpecHle: Disassemble over instruction words around the opcode field,    *)
(* patched into memory while the machine changes state.                    *)
(***************************************************************************)
\* 0x00000000, 0x00000001, 0x02000000, 0x04000000, 0x07FFFFFF (OPCD = 1),
\* 0x08000000 (OPCD = 2), 0x44000000 (OPCD = 17), 0xFFFFFFFF (OPCD = 63)
OpWords ==
    {<<0, 0>>, <<0, 1>>, <<512, 0>>, <<1024, 0>>, <<2047, 65535>>, <<2048, 0>>,
     <<17408, 0>>, <<65535, 65535>>}

NextHle ==
    \/ MachineNext
    \/ ApplyInvalidate
    \/ \E v \in OpWords : PatchCall(<<32768, 4096>>, v)
    \/ \E a \in Addrs : DisassembleCall(a)

SpecHle == Init /\ [][NextHle]_vars

\* C16: on a machine that is alive and paused, for a valid RAM address,
\* Disassemble returns the disassembler's text for the word at the address
\* followed by " (hle)" exactly when the word's top six bits are 000001, and the
\* text alone for every other word; a sentinel result never carries the suffix.
C16_HleSuffix ==
    last.op = "Disassemble" =>
      LET a == last.args[1]
          text == GekkoDisassemble(ram[a], a)
          sentinels == {"", "<unknown>", "(No RAM here)"}
      IN  /\ (coreState = "Paused" /\ HostIsRAMAddress(a))
               => /\ ram[a][1] \in 1024..2047 => last.ret = text \o " (hle)"
                  /\ ram[a][1] \notin 1024..2047 => last.ret = text
          /\ ~(coreState = "Paused" /\ HostIsRAMAddress(a)) => last.ret \in sentinels
          /\ last.ret \notin {t \o " (hle)" : t \in sentinels}

\* C16 witness: the word 0x07FFFFFF (opcode field 1) disassembled on a paused
\* machine, with the suffix.
C16_Witness ==
    /\ last.op = "Disassemble"
    /\ coreState = "Paused"
    /\ last.args[1] = <<32768, 4096>>
    /\ ram[<<32768, 4096>>] = <<2047, 65535>>
    /\ last.ret = "op_07FFFFFF@80001000 (hle)"

(***************************************************************************)
(* SpecToggle: one debugger thread whose only memcheck mutation is         *)
(* ToggleMemCheck, from the empty set.                                     *)
(***************************************************************************)
NextToggle ==
    \/ \E a \in Addrs, f \in FlagTriples : ToggleMemCheckCall(a, f[1], f[2], f[3])
    \/ \E a \in Addrs, size \in {1, 4} : IsMemCheckCall(a, size)

SpecToggle == Init /\ [][NextToggle]_vars

\* C17: after any sequence of ToggleMemCheck calls from the empty set, no two
\* records have the same address and every record is a single-address record
\* with break_on_hit set; a toggle on an address without a hit appends exactly
\* the record (address, address, read, write, log, break_on_hit = true) of that
\* call, and a toggle on an address with a hit removes one record of that address
\* and leaves every other record, flags included, as it was.
C17_ToggleMemCheckRecords ==
    /\ [](\A i, j \in 1..Len(memchecks) :
            /\ i # j => memchecks[i].start_address # memchecks[j].start_address
            /\ memchecks[i].start_address = memchecks[i].end_address
            /\ memchecks[i].break_on_hit)
    /\ [][last'.op = "ToggleMemCheck"
            => LET a == last'.args[1]
               IN  IF \E i \in 1..Len(memchecks) : memchecks[i].start_address = a
                     THEN \E i \in 1..Len(memchecks) :
                            /\ memchecks[i].start_address = a
                            /\ memchecks' = RemoveAt(memchecks, i)
                     ELSE memchecks' =
                            Append(memchecks,
                                   [start_address |-> a, end_address |-> a,
                                    is_break_on_read |-> last'.args[2],
                                    is_break_on_write |-> last'.args[3],
                                    log_on_hit |-> last'.args[4],
                                    break_on_hit |-> TRUE])]_vars

\* C17 witness: a toggle with flags (read) has just removed the record of its
\* address, created with flags (write, log), and the record of another address,
\* created with flags (read), is still there.
C17_Witness ==
    /\ last.op = "ToggleMemCheck"
    /\ Len(hist[1].before) = 2
    /\ Len(memchecks) = 1
    /\ memchecks[1].start_address # last.args[1]
    /\ memchecks[1].is_break_on_read
    /\ last.args[2]
    /\ \E i \in 1..2 : /\ hist[1].before[i].start_address = last.args[1]
                        /\ ~hist[1].before[i].is_break_on_read
                        /\ hist[1].before[i].log_on_hit

\* C18 as stated: alive, with the secondary space selected and an address that is
\* not valid, GetRawMemoryString returns "--ARAM--".
C18_Original ==
    (/\ last.op = "GetRawMemoryString"
     /\ IsRunningAndStarted(coreState)
     /\ last.args[1] # 0
     /\ ~HostIsRAMAddress(last.args[2]))
      => last.ret = "--ARAM--"

\* C18 amended: no GetRawMemoryString call returns "--ARAM--": alive with the
\* secondary space selected the address is not checked at all (no
\* HostIsRAMAddress call) and the result is the formatted word with " (ARAM)"
\* also at an address that is not valid primary RAM; only the primary space
\* answers an invalid address with its sentinel, "--------".
C18_NoAramSentinel ==
    last.op = "GetRawMemoryString" =>
      /\ last.ret # "--ARAM--"
      /\ (IsRunningAndStarted(coreState) /\ last.args[1] # 0)
           => /\ \A i \in 1..Len(last.log) : last.log[i] # "HostIsRAMAddress"
              /\ last.ret =
                   Hex8(IF last.args[1] = 1
                          THEN <<aram[U32Add(last.args[2], 0)] * 256
                                   + aram[U32Add(last.args[2], 1)],
                                 aram[U32Add(last.args[2], 2)] * 256
                                   + aram[U32Add(last.args[2], 3)]>>
                          ELSE <<0, 0>>) \o " (ARAM)"
      /\ (IsRunningAndStarted(coreState) /\ last.args[1] = 0
             /\ ~HostIsRAMAddress(last.args[2]))
           => last.ret = "--------"

\* C18 witness: alive, space 2, at 0xFFFFFFFE, which is not valid primary RAM:
\* the answer is a formatted word, not a sentinel.
C18_Witness ==
    /\ last.op = "GetRawMemoryString"
    /\ IsRunningAndStarted(coreState)
    /\ last.args = <<2, <<65535, 65534>>>>
    /\ last.ret = "00000000 (ARAM)"

\* the mutating methods of each collection
BreakpointOps == {"SetBreakpoint", "ClearBreakpoint", "ToggleBreakpoint", "ClearAllBreakpoints"}

MemCheckOps == {"ToggleMemCheck", "ClearAllMemChecks"}

WatchOps ==
    {"SetWatch", "UnsetWatch", "UpdateWatch", "UpdateWatchAddress", "UpdateWatchName",
     "EnableWatch", "DisableWatch", "RemoveWatch", "LoadWatchesFromStrings", "ClearWatches"}

\* C19: a breakpoint method leaves the memcheck set and the watch sequence
\* unchanged, a memcheck method leaves the breakpoint set and the watch sequence
\* unchanged, and a watch method leaves the breakpoint and memcheck sets
\* unchanged, also when the same address is in all three.
C19_CollectionsIndependent ==
    [][/\ last'.op \in BreakpointOps => UNCHANGED <<memchecks, watches>>
       /\ last'.op \in MemCheckOps => UNCHANGED <<breakpoints, watches>>
       /\ last'.op \in WatchOps => UNCHANGED <<breakpoints, memchecks>>]_vars

\* C19 witness: 0x80001000 was a breakpoint, a memcheck and a watch; the toggle
\* has removed the breakpoint and the address is still a memcheck and a watch.
C19_Witness ==
    /\ last.op = "ToggleBreakpoint"
    /\ last.args[1] = <<32768, 4096>>
    /\ IsAddressBreakPoint(hist[1].before, <<32768, 4096>>)
    /\ ~IsAddressBreakPoint(breakpoints, <<32768, 4096>>)
    /\ IsMemCheck(memchecks, <<32768, 4096>>, 1)
    /\ WatchesHasEnabledWatch(watches, <<32768, 4096>>)

\* the methods that take a watch index
IndexOps ==
    {"GetWatch", "UpdateWatch", "UpdateWatchAddress", "UpdateWatchName", "EnableWatch",
     "DisableWatch", "RemoveWatch"}

C20_FetchAfterChecks ==
    /\ [](last.op = "Disassemble" =>
            LET fetched == \E i \in 1..Len(last.log) :
                             last.log[i] \in {"HostRead_Instruction", "HostRead_U32",
                                              "ReadARAM"}
            IN  /\ fetched
                     => /\ last.log = <<"IsAlive=true", "GetState", "HostIsRAMAddress",
                                        "HostRead_Instruction">>
                        /\ coreState = "Paused"
                        /\ HostIsRAMAddress(last.args[1])
                /\ (~last.fault /\ last.ret \in {"", "<unknown>", "(No RAM here)"})
                     => ~fetched
                /\ \A i \in 1..Len(last.log) :
                     last.log[i] \notin {"HostWrite_U32", "pc.write",
                                         "ScheduleInvalidateCacheThreadSafe"})
    /\ [][last'.op = "Disassemble"
            => UNCHANGED <<breakpoints, memchecks, watches, pc, ram, aram, pending,
                           icache>>]_vars

\* C20 witness: Disassemble on a paused machine at an address that is not RAM:
\* "(No RAM here)" after the three checks, with no fetch.
C20_Witness ==
    /\ last.op = "Disassemble"
    /\ coreState = "Paused"
    /\ last.ret = "(No RAM here)"
    /\ last.log = <<"IsAlive=true", "GetState", "HostIsRAMAddress">>

=============================================================================
